---------------------------- MODULE Spec2Model ----------------------------
(***************************************************************************)
(* A model of frontend2/src/app.rs: the HomePage component's "Place        *)
(* Galaxies" and "Run Model" click handlers with the tasks they spawn, and *)
(* the server functions run_model and save_galaxy_data working on the two  *)
(* shared files user_input.npy and output.npy.                             *)
(*                                                                         *)
(* Array contents are abstracted to provenance tags: tag 0 is the random   *)
(* array written by generate_npy_data on page load, tag g >= 1 is the      *)
(* galaxy grid of the g-th "Place Galaxies" click.  An output array        *)
(* carries the tag of the input the child process read.  Option values     *)
(* are sequences of length at most one: <<>> is None, <<x>> is Some(x).    *)
(***************************************************************************)
EXTENDS Integers, Sequences, FiniteSets, TLC

\* Number of "Place Galaxies" clicks explored.
MaxSubmits == 2
\* Number of "Run Model" clicks explored.
MaxRuns == 1

VARIABLES
    cached_model_output,  \* RwSignal<Option<NpyData>>            (app.rs:451)
    cachedBy,             \* the click whose background task filled the
                          \* slot, and the clicks made when it did
    model_running,        \* RwSignal<bool>                        (app.rs:447)
    model_status,         \* RwSignal<String>, as the parts of the text
    shown,                \* last array given to set_opacities_from_densities
    fs,                   \* the server's files user_input.npy, output.npy
    generating,           \* the page-load generate_npy_data task is pending
    saves,                \* pending save_galaxy_data tasks, by click number
    calls,                \* the run_model calls, by caller
    submits,              \* "Place Galaxies" clicks so far
    runs,                 \* "Run Model" clicks so far
    invocations,          \* run_model invocations so far (a call counter)
    load,                 \* a load_npy call with the files and the endpoint
                          \* it works on
    codec                 \* a generate_npy_data call, or the encoder at work
                          \* on an array, with the bytes it writes

\* HomePage's signals and what its tasks work on.
homeVars == <<cached_model_output, cachedBy, model_running, model_status, shown,
              fs, generating, saves, calls, submits, runs, invocations>>

\* What the server functions HomePage never calls work on.
others == <<load, codec>>

vars == <<homeVars, others>>

\* Call 0 is the foreground call of the "Run Model" button; call g >= 1 is
\* the background call spawned by the g-th "Place Galaxies" click.
Foreground == 0
BgIds == 1..MaxSubmits
CallIds == {Foreground} \cup BgIds

\* Unparseable bytes in output.npy.
Garbage == -1

\* What the child process can exit with, and what it can leave on stderr.
ExitCodes == {0, 1}
StderrTexts == {"", "Traceback"}

\* format!("{}", output.status)
StatusText(code) == ToString(code)

Ok(data) == [ok |-> TRUE, data |-> <<data>>, err |-> <<>>]
Err(parts) == [ok |-> FALSE, data |-> <<>>, err |-> parts]

IdleCall ==
    [pc |-> "idle", input_bytes |-> <<>>, wrote |-> FALSE,
     launched |-> FALSE, child_input |-> <<>>, exited |-> FALSE,
     status |-> 0, stderr |-> "", readOut |-> FALSE, result |-> Err(<<>>)]

\* A run_model call that has been invoked and has not yet run on the server.
NewCall == [IdleCall EXCEPT !.pc = "read"]

HomeInit ==
    /\ cached_model_output = <<>>
    /\ cachedBy = [by |-> 0, at |-> 0]
    /\ model_running = FALSE
    /\ model_status = <<>>
    /\ shown = <<>>
    /\ fs = [user_input |-> <<>>, output |-> <<>>]
    /\ generating = TRUE
    /\ saves = {}
    /\ calls = [c \in CallIds |-> IdleCall]
    /\ submits = 0
    /\ runs = 0
    /\ invocations = 0

\* No load_npy call: HomePage makes none.
NoLoad ==
    [pc |-> "off", run_id |-> "", files |-> <<>>, remote |-> <<>>,
     loads |-> 0, requests |-> 0, local_err |-> "", bytes |-> <<>>,
     result |-> Err(<<>>)]

\* No array is being generated or encoded.
NoCodec ==
    [pc |-> "off", n |-> <<>>, num_random |-> 0, artifact |-> <<>>,
     job |-> "", json |-> <<>>, npy_data |-> <<>>, returned |-> <<>>, decoded |-> <<>>]

Init == HomeInit /\ load = NoLoad /\ codec = NoCodec


---------------------------------------------------------------------------
(* run_model, the server function (app.rs:35-157), one call's steps.       *)

\* An existence check of the input that always finds the file.
InputMissingNever(f) == FALSE

\* Step 1 (app.rs:54): !Path::new(&input_npy_path).exists()
InputMissing(f) == f.user_input = <<>>

\* Step 1 (app.rs:54-66): the existence check and the read of the input
\* file, which the caller names "user_input.npy".
ReadStep(c, f, readOk) ==
    IF InputMissing(f)
    THEN [c EXCEPT !.pc = "resp",
                   !.result = Err(<<"Input file not found: ", "user_input.npy">>)]
    ELSE IF ~readOk
    THEN [c EXCEPT !.pc = "resp",
                   !.result = Err(<<"Failed to read input file: ", "io error">>)]
    ELSE [c EXCEPT !.pc = "write", !.input_bytes = f.user_input]

RunModelRead(c) ==
    /\ calls[c].pc = "read"
    /\ \E readOk \in BOOLEAN :
         calls' = [calls EXCEPT ![c] = ReadStep(calls[c], fs, readOk)]
    /\ UNCHANGED <<cached_model_output, cachedBy, model_running, model_status,
                   shown, fs, generating, saves, submits, runs, invocations>>
    /\ UNCHANGED others

\* Step 2 with the write's error dropped instead of returned.
WriteStepErrorDropped(c, writeOk) ==
    [c EXCEPT !.pc = "exec", !.wrote = writeOk, !.input_bytes = <<>>]

\* Step 2 (app.rs:70-76): std::fs::write("user_input.npy", &input_bytes)?
WriteStep(c, writeOk) ==
    IF writeOk
    THEN [c EXCEPT !.pc = "exec", !.wrote = TRUE, !.input_bytes = <<>>]
    ELSE [c EXCEPT !.pc = "resp", !.input_bytes = <<>>,
                   !.result = Err(<<"Failed to write user_input.npy: ", "io error">>)]

RunModelWrite(c) ==
    /\ calls[c].pc = "write"
    /\ \E writeOk \in BOOLEAN :
         /\ calls' = [calls EXCEPT ![c] = WriteStep(calls[c], writeOk)]
         /\ fs' = IF writeOk
                  THEN [fs EXCEPT !.user_input = calls[c].input_bytes]
                  ELSE fs
    /\ UNCHANGED <<cached_model_output, cachedBy, model_running, model_status,
                   shown, generating, saves, submits, runs, invocations>>
    /\ UNCHANGED others

\* Step 3 (app.rs:82-89): Command::new(".venv/bin/python3").arg("run_model.py")
\* is spawned, or the spawn fails.  The child reads user_input.npy as it starts.
RunModelExec(c) ==
    /\ calls[c].pc = "exec"
    /\ \E spawnOk \in BOOLEAN :
         calls' = [calls EXCEPT ![c] =
            IF spawnOk
            THEN [@ EXCEPT !.pc = "wait", !.launched = TRUE,
                           !.child_input = fs.user_input]
            ELSE [@ EXCEPT !.pc = "resp",
                           !.result = Err(<<"Failed to execute python script: ", "io error">>)]]
    /\ UNCHANGED <<cached_model_output, cachedBy, model_running, model_status,
                   shown, fs, generating, saves, submits, runs, invocations>>
    /\ UNCHANGED others

\* What the child may leave in output.npy: nothing new, an array computed
\* from the input it read, bytes that are no .npy file, or an array that is
\* not f32.
NotF32 == -2
ChildWrites(c, f) ==
    {f.output, <<Garbage>>, <<NotF32>>}
        \cup (IF c.child_input = <<>> THEN {} ELSE {c.child_input})

\* Step 3 (app.rs:82-92): .output() returns once the child has exited, with
\* its exit status and its captured stderr.
ChildExit(c) ==
    /\ calls[c].pc = "wait"
    /\ \E code \in ExitCodes, text \in StderrTexts, out \in ChildWrites(calls[c], fs) :
         /\ calls' = [calls EXCEPT ![c] =
                [@ EXCEPT !.pc = "collect", !.exited = TRUE, !.status = code,
                          !.stderr = text, !.child_input = <<>>]]
         /\ fs' = [fs EXCEPT !.output = out]
    /\ UNCHANGED <<cached_model_output, cachedBy, model_running, model_status,
                   shown, generating, saves, submits, runs, invocations>>
    /\ UNCHANGED others

\* A status check that only sees a child killed by a signal.
ExitFailedSignalOnly(status) == status < 0

\* app.rs:111: !output.status.success()
ExitFailed(status) == status # 0

\* An existence check that always finds the file.
OutputMissingNever(f) == FALSE

\* app.rs:120: !Path::new("output.npy").exists()
OutputMissing(f) == f.output = <<>>

\* Steps 4 and 5 (app.rs:126-156): read output.npy, parse it, take its data
\* as f32.
DecodeOutput(c, f, readOk) ==
    IF f.output = <<>> \/ ~readOk
    THEN [c EXCEPT !.pc = "resp", !.readOut = TRUE, !.stderr = "",
                   !.result = Err(<<"Failed to read output.npy: ", "io error">>)]
    ELSE IF f.output[1] = Garbage
    THEN [c EXCEPT !.pc = "resp", !.readOut = TRUE, !.stderr = "",
                   !.result = Err(<<"Failed to parse output.npy: ", "parse error">>)]
    ELSE IF f.output[1] = NotF32
    THEN [c EXCEPT !.pc = "resp", !.readOut = TRUE, !.stderr = "",
                   !.result = Err(<<"Failed to read output.npy data as f32: ", "type error">>)]
    ELSE [c EXCEPT !.pc = "resp", !.readOut = TRUE, !.stderr = "",
                   !.result = Ok(f.output[1])]

\* app.rs:111-156: from the exit status to the returned value.
CollectStep(c, f, readOk) ==
    IF ExitFailed(c.status)
    THEN [c EXCEPT !.pc = "resp", !.stderr = "",
                   !.result = Err(<<"Python script failed with exit code: ",
                                    StatusText(c.status)>>)]
    ELSE IF OutputMissing(f)
    THEN [c EXCEPT !.pc = "resp", !.stderr = "",
                   !.result = Err(<<"Python script did not create output.npy file">>)]
    ELSE DecodeOutput(c, f, readOk)

RunModelCollect(c) ==
    /\ calls[c].pc = "collect"
    /\ \E readOk \in BOOLEAN :
         calls' = [calls EXCEPT ![c] = CollectStep(calls[c], fs, readOk)]
    /\ UNCHANGED <<cached_model_output, cachedBy, model_running, model_status,
                   shown, fs, generating, saves, submits, runs, invocations>>
    /\ UNCHANGED others

---------------------------------------------------------------------------
(* The other server functions that write user_input.npy.                   *)

\* generate_npy_data(None), spawned on page load (app.rs:456-467, 384-388).
GenerateNpyData ==
    /\ generating
    /\ generating' = FALSE
    /\ \E writeOk \in BOOLEAN :
         fs' = IF writeOk THEN [fs EXCEPT !.user_input = <<0>>] ELSE fs
    /\ UNCHANGED <<cached_model_output, cachedBy, model_running, model_status,
                   shown, saves, calls, submits, runs, invocations>>
    /\ UNCHANGED others

\* save_galaxy_data (app.rs:243-307) for the g-th click's galaxies: the JSON
\* parse or the write may fail, else user_input.npy holds that click's grid.
SaveGalaxyData(g) ==
    /\ g \in saves
    /\ saves' = saves \ {g}
    /\ \E saveOk \in BOOLEAN :
         fs' = IF saveOk THEN [fs EXCEPT !.user_input = <<g>>] ELSE fs
    /\ UNCHANGED <<cached_model_output, cachedBy, model_running, model_status,
                   shown, generating, calls, submits, runs, invocations>>
    /\ UNCHANGED others

---------------------------------------------------------------------------
(* HomePage's handlers (app.rs:556-652).                                   *)

\* "Place Galaxies" on:click (app.rs:558-595): spawns save_galaxy_data and a
\* background run_model; cached_model_output is not touched.  The handler
\* also clears the galaxy_count input, which no operation modelled here reads.
PlaceGalaxiesClick ==
    /\ submits < MaxSubmits
    /\ submits' = submits + 1
    /\ saves' = saves \cup {submits + 1}
    /\ calls' = [calls EXCEPT ![submits + 1] = NewCall]
    /\ invocations' = invocations + 1
    /\ UNCHANGED <<cached_model_output, cachedBy, model_running, model_status,
                   shown, fs, generating, runs>>
    /\ UNCHANGED others

\* The background task's match on run_model's result (app.rs:585-593).
BackgroundDone(g) ==
    /\ g \in BgIds
    /\ calls[g].pc = "resp"
    /\ IF calls[g].result.ok
       THEN /\ cached_model_output' = calls[g].result.data
            /\ cachedBy' = [by |-> g, at |-> submits]
       ELSE UNCHANGED <<cached_model_output, cachedBy>>
    /\ calls' = [calls EXCEPT ![g] = IdleCall]
    /\ UNCHANGED <<model_running, model_status, shown, fs, generating, saves,
                   submits, runs, invocations>>
    /\ UNCHANGED others

\* A cache test that never hits.
CacheHitNever(slot) == FALSE

\* app.rs:606: if let Some(_) = cached_model_output.get()
CacheHit(slot) == slot # <<>>

\* "Run Model" on:click (app.rs:601-648); the button is disabled while
\* model_running (app.rs:649).  The spawned task runs to its first await
\* (model_running.set(true), the run_model request) before the next event.
RunModelClick ==
    /\ ~model_running
    /\ runs < MaxRuns
    /\ runs' = runs + 1
    /\ IF CacheHit(cached_model_output)
       THEN /\ shown' = cached_model_output
            /\ model_status' = <<"Model complete!">>
            /\ UNCHANGED <<model_running, calls, invocations>>
       ELSE /\ model_status' = <<"Model loading... This may take a while">>
            /\ model_running' = TRUE
            /\ calls' = [calls EXCEPT ![Foreground] = NewCall]
            /\ invocations' = invocations + 1
            /\ UNCHANGED shown
    /\ UNCHANGED <<cached_model_output, cachedBy, fs, generating, saves, submits>>
    /\ UNCHANGED others

\* An Err arm that reports the run as complete.
ErrorStatusComplete(err) == <<"Model complete!">>

\* app.rs:640: format!("Error: {:?}", e)
ErrorStatus(err) == <<"Error: ">> \o err

\* A foreground task that caches what it shows.
SlotAfterForegroundCached(slot, result) ==
    IF result.ok THEN result.data ELSE slot

\* app.rs:628-643: neither arm of the foreground match writes
\* cached_model_output.
SlotAfterForeground(slot, result) == slot

\* A foreground task that clears model_running in its Ok arm only.
RunningAfterForegroundOkOnly(result) == ~result.ok

\* app.rs:645: model_running_clone.set(false), after the match.
RunningAfterForeground(result) == FALSE

\* The foreground task's match on run_model's result (app.rs:628-645).
ForegroundDone ==
    /\ calls[Foreground].pc = "resp"
    /\ IF calls[Foreground].result.ok
       THEN /\ shown' = calls[Foreground].result.data
            /\ model_status' = <<"Model complete!">>
       ELSE /\ model_status' = ErrorStatus(calls[Foreground].result.err)
            /\ UNCHANGED shown
    /\ model_running' = RunningAfterForeground(calls[Foreground].result)
    /\ cached_model_output' =
          SlotAfterForeground(cached_model_output, calls[Foreground].result)
    /\ calls' = [calls EXCEPT ![Foreground] = IdleCall]
    /\ UNCHANGED <<cachedBy, fs, generating, saves, submits, runs, invocations>>
    /\ UNCHANGED others

Next ==
    \/ PlaceGalaxiesClick
    \/ RunModelClick
    \/ GenerateNpyData
    \/ \E g \in BgIds : SaveGalaxyData(g)
    \/ \E c \in CallIds : RunModelRead(c)
    \/ \E c \in CallIds : RunModelWrite(c)
    \/ \E c \in CallIds : RunModelExec(c)
    \/ \E c \in CallIds : ChildExit(c)
    \/ \E c \in CallIds : RunModelCollect(c)
    \/ \E g \in BgIds : BackgroundDone(g)
    \/ ForegroundDone

Spec == Init /\ [][Next]_vars

\* The foreground task is resumed once its run_model request has an answer
\* (app.rs:620-646): the browser's executor polls a woken task.
SpecFair == Spec /\ WF_vars(ForegroundDone)

---------------------------------------------------------------------------
(* load_npy, the server function (app.rs:163-232).  No handler of HomePage *)
(* calls it: its specification has a caller that loads run ids in turn,    *)
(* over local files and a remote endpoint that are chosen at the start.    *)

\* Number of load_npy calls explored.
MaxLoads == 2

RunIds == {"run0100_dm", "run0200_dm"}

\* app.rs:170: format!("{run_id}.npy")
PathOf(run_id) == run_id \o ".npy"

\* What std::fs::read(&path) finds: the file's bytes, or an error.
LocalOk(bytes) == [ok |-> TRUE, bytes |-> <<bytes>>, err |-> ""]
LocalErr(cause) == [ok |-> FALSE, bytes |-> <<>>, err |-> cause]
LocalFiles ==
    {LocalErr("No such file or directory"), LocalErr("Permission denied")}
        \cup {LocalOk(b) : b \in {Garbage, 1, 2}}

\* What reqwest::get(&api_url) meets: a transport error, or a response with
\* a status and a body that can be read (<<bytes>>) or not (<<>>).
RemoteDown(cause) == [reach |-> FALSE, status |-> 0, body |-> <<>>, err |-> cause]
RemoteAnswer(status, body) ==
    [reach |-> TRUE, status |-> status, body |-> body, err |-> ""]
Remotes ==
    {RemoteDown("connection refused")}
        \cup {RemoteAnswer(st, <<>>) : st \in {404, 500}}
        \cup {RemoteAnswer(200, b) : b \in {<<>>, <<Garbage>>, <<1>>, <<3>>}}

\* format!("{}", resp.status())
HttpStatusText(status) == ToString(status)

\* app.rs:184: resp.status().is_success()
IsSuccess(status) == status >= 200 /\ status < 300

InitLoad ==
    /\ HomeInit
    /\ load \in {[NoLoad EXCEPT !.pc = "ready", !.files = f, !.remote = r] :
                    f \in [RunIds -> LocalFiles], r \in Remotes}
    /\ codec = NoCodec

\* load_npy(run_id) is called (app.rs:164-171).
LoadCall(run_id) ==
    /\ load.pc \in {"ready", "done"}
    /\ load.loads < MaxLoads
    /\ load' = [load EXCEPT !.pc = "read", !.run_id = run_id,
                            !.loads = @ + 1, !.requests = 0,
                            !.local_err = "", !.bytes = <<>>,
                            !.result = Err(<<>>)]
    /\ UNCHANGED <<homeVars, codec>>

\* A load that asks the endpoint whatever the disk holds.
LoadReadStepRemoteFirst(l, file) ==
    [l EXCEPT !.pc = "fetch", !.local_err = file.err]

\* app.rs:173-179: std::fs::read(&path); the bytes on success, else on to
\* the endpoint.
LoadReadStep(l, file) ==
    IF file.ok
    THEN [l EXCEPT !.pc = "parse", !.bytes = file.bytes]
    ELSE [l EXCEPT !.pc = "fetch", !.local_err = file.err]

LoadRead ==
    /\ load.pc = "read"
    /\ load' = LoadReadStep(load, load.files[load.run_id])
    /\ UNCHANGED <<homeVars, codec>>

\* app.rs:196-205: the errors of the two failing arms.  In the last arm the
\* `e` of both placeholders is the request's error: it shadows the read's.
NonSuccessError(status) ==
    Err(<<"API returned non-success status: ", HttpStatusText(status)>>)
TransportError(path, e) ==
    Err(<<"Failed to read ", path, ": ", e, ", and API request failed: ", e>>)

\* A fetch that asks a second time when the first answer is in.
LoadFetchStepTwice(l, remote) ==
    IF ~remote.reach
    THEN [l EXCEPT !.pc = "done", !.requests = @ + 1,
                   !.result = TransportError(PathOf(l.run_id), remote.err)]
    ELSE IF IsSuccess(remote.status)
    THEN [l EXCEPT !.pc = "body", !.requests = @ + 2]
    ELSE [l EXCEPT !.pc = "done", !.requests = @ + 1,
                   !.result = NonSuccessError(remote.status)]

\* app.rs:181-206: one reqwest::get(&api_url) and the match on its outcome.
LoadFetchStep(l, remote) ==
    IF ~remote.reach
    THEN [l EXCEPT !.pc = "done", !.requests = @ + 1,
                   !.result = TransportError(PathOf(l.run_id), remote.err)]
    ELSE IF IsSuccess(remote.status)
    THEN [l EXCEPT !.pc = "body", !.requests = @ + 1]
    ELSE [l EXCEPT !.pc = "done", !.requests = @ + 1,
                   !.result = NonSuccessError(remote.status)]

LoadFetch ==
    /\ load.pc = "fetch"
    /\ load' = LoadFetchStep(load, load.remote)
    /\ UNCHANGED <<homeVars, codec>>

\* A load that keeps what it fetched as the local file.
FilesAfterFetchWrittenBack(files, run_id, body) ==
    [files EXCEPT ![run_id] = LocalOk(body[1])]

\* app.rs:184-195: the fetched bytes go to the parser only; no file is
\* written.
FilesAfterFetch(files, run_id, body) == files

\* app.rs:186-194: resp.bytes().await?.to_vec()
LoadBody ==
    /\ load.pc = "body"
    /\ load' =
         IF load.remote.body = <<>>
         THEN [load EXCEPT !.pc = "done",
                  !.result = Err(<<"Failed to read response body: ", "io error">>)]
         ELSE [load EXCEPT !.pc = "parse", !.bytes = load.remote.body,
                  !.files = FilesAfterFetch(load.files, load.run_id,
                                            load.remote.body)]
    /\ UNCHANGED <<homeVars, codec>>

\* app.rs:210-231: NpyFile::new, shape, into_vec::<f32>.
LoadParse ==
    /\ load.pc = "parse"
    /\ load' = [load EXCEPT !.pc = "done", !.result =
          IF load.bytes[1] = Garbage
          THEN Err(<<"Failed to parse npy: ", "parse error">>)
          ELSE IF load.bytes[1] = NotF32
          THEN Err(<<"Failed to read npy data as f32: ", "type error">>)
          ELSE Ok(load.bytes[1])]
    /\ UNCHANGED <<homeVars, codec>>

NextLoad ==
    \/ \E run_id \in RunIds : LoadCall(run_id)
    \/ LoadRead
    \/ LoadFetch
    \/ LoadBody
    \/ LoadParse

SpecLoad == InitLoad /\ [][NextLoad]_vars

---------------------------------------------------------------------------
(* generate_npy_data (app.rs:311-392) and the NPY encoder it shares with   *)
(* save_galaxy_data (app.rs:276-303, 358-388), on concrete arrays.         *)
(*                                                                         *)
(* An f32 is its IEEE-754 bit pattern, as the sign bit and the other 31    *)
(* bits.  A Vec<f32> is sparse: its length, the value of the cells that    *)
(* are not listed, and the listed cells by position.  A file's payload is  *)
(* sparse in the same way, in 4-byte words.                                *)

\* The bits of 1.0 (0x3F800000) and of 1000.0 (0x447A0000), sign apart.
OneBits == 1065353216
ThousandBits == 1148846080

\* app.rs:330: the fill value -1.0.
MinusOne == [neg |-> TRUE, mag |-> OneBits]

\* app.rs:343: what Uniform::new(1.0, 1000.0) can give: 1.0, 500.0 and the
\* largest f32 below 1000.0.
SampleValues ==
    <<[neg |-> FALSE, mag |-> OneBits], [neg |-> FALSE, mag |-> 1140457472],
      [neg |-> FALSE, mag |-> ThousandBits - 1]>>

\* app.rs:330: the dimensions of Array3::from_elem((64, 64, 64), -1.0).
GridDims == <<64, 64, 64>>
\* app.rs:331
TotalElements == 64 * 64 * 64

\* A returned shape that drops a dimension.
GridShapeFlat == <<64, 64>>

\* app.rs:356: vec![64u64, 64u64, 64u64]
GridShape == <<64, 64, 64>>

RECURSIVE Product(_)
Product(shape) ==
    IF shape = <<>> THEN 1 ELSE Head(shape) * Product(Tail(shape))

Min(a, b) == IF a < b THEN a ELSE b
Max(a, b) == IF a > b THEN a ELSE b

\* A clamp without its upper end.
ClampCountLowOnly(count) == Max(count, 50)

\* app.rs:319: count.min(500).max(50)
ClampCount(count) == Max(Min(count, 500), 50)

\* The n of the calls explored, and what gen_range(50..501) is let give.
Counts == {0, 49, 50, 51, 500, 501, 1000}
RandomCounts == {50, 275, 500}

\* app.rs:318-325
NumRandom(n, r) == IF n # <<>> THEN ClampCount(n[1]) ELSE r

\* app.rs:334-340: indices after the shuffle, a permutation of
\* 0..total_elements-1.  The permutations explored are i |-> start + i*stride
\* modulo total_elements with an odd stride.
Shuffles == {[start |-> s, stride |-> t] : s \in {0, 262143}, t \in {1, 4097}}
IndexAt(indices, i) == (indices.start + i * indices.stride) % TotalElements

\* app.rs:346-348
Cell(idx) == <<idx \div (64 * 64), (idx \div 64) % 64, idx % 64>>

\* app.rs:349, 355: the place of array[[x, y, z]] in array.into_iter().
Flat(cell) ==
    cell[1] * GridDims[2] * GridDims[3] + cell[2] * GridDims[3] + cell[3]

\* The i-th rng.sample(dist) of a call whose draws start at `off`.
Sample(i, off) == SampleValues[((i + off) % Len(SampleValues)) + 1]

\* app.rs:344-350: the cells the loop assigns in its steps 0..bound-1, each
\* with the sample of the last step that assigns it.
FillLoop(indices, off, bound) ==
    LET At(i) == Flat(Cell(IndexAt(indices, i)))
        LastStep(c) ==
            LET steps == {i \in 0..(bound - 1) : At(i) = c}
            IN CHOOSE i \in steps : \A j \in steps : j <= i
    IN [c \in {At(i) : i \in 0..(bound - 1)} |-> Sample(LastStep(c), off)]

\* app.rs:330-355: the array after the loop, flattened.
Filled(num_random, indices, off) ==
    [len |-> Product(GridDims), fill |-> MinusOne,
     set |-> FillLoop(indices, off, Min(num_random, TotalElements))]

\* app.rs:280, 365: b"\x93NUMPY"; app.rs:283-284, 368-369: version (1, 0).
Magic == <<147, 78, 85, 77, 80, 89>>
Version == <<1, 0>>

\* app.rs:288, 373: the text of header_dict, cut into its tokens; the last
\* token is the 77 spaces the literal ends with.
HeaderDict ==
    <<"{", "'descr'", ": ", "'<f4'", ", ", "'fortran_order'", ": ", "False",
      ", ", "'shape'", ": ", "(", "64", ", ", "64", ", ", "64", ")", "}",
      "                                                                             ">>

\* header_dict.len(): the bytes of an ASCII text.
RECURSIVE TextLen(_)
TextLen(tokens) ==
    IF tokens = <<>> THEN 0 ELSE Len(Head(tokens)) + TextLen(Tail(tokens))

\* app.rs:290, 375: header_dict.len() as u16
HeaderLen(header_dict) == TextLen(header_dict) % 65536

\* u16::to_le_bytes and its inverse.
U16Le(x) == <<x % 256, x \div 256>>
U16FromLe(b) == b[1] + 256 * b[2]

\* f32::to_le_bytes
F32Le(v) ==
    <<v.mag % 256, (v.mag \div 256) % 256, (v.mag \div 65536) % 256,
      (v.mag \div 16777216) + (IF v.neg THEN 128 ELSE 0)>>

\* f32::from_le_bytes
F32FromLe(b) ==
    [neg |-> b[4] >= 128,
     mag |-> b[1] + 256 * b[2] + 65536 * b[3] + 16777216 * (b[4] % 128)]

\* app.rs:277-297, 362-382: npy_data for a Vec<f32>.  The shape in the
\* header is the literal's, whatever the vector.
EncodeNpy(data) ==
    [magic |-> Magic, version |-> Version,
     header_len |-> U16Le(HeaderLen(HeaderDict)), header |-> HeaderDict,
     payload |-> [len |-> 4 * data.len, fill |-> F32Le(data.fill),
                  set |-> [i \in DOMAIN data.set |-> F32Le(data.set[i])]]]

\* The value of a key of the header's dictionary: the token after the key
\* and its colon, <<>> when the key is absent.
ValueAt(header, key) ==
    LET at == {i \in 1..(Len(header) - 2) : header[i] = key}
    IN IF at = {} THEN <<>> ELSE <<(CHOOSE i \in at : TRUE) + 2>>

\* The tokens of a tuple that opens at token `from`, separators dropped.
RECURSIVE TupleItems(_, _)
TupleItems(header, from) ==
    IF from > Len(header) \/ header[from] = ")"
    THEN <<>>
    ELSE IF header[from] \in {"(", ", ", ","}
    THEN TupleItems(header, from + 1)
    ELSE <<header[from]>> \o TupleItems(header, from + 1)

\* The unsigned integers a shape can hold here, with their decimal texts.
Dims == 0..64
IsDim(text) == \E d \in Dims : ToString(d) = text
DimOf(text) == CHOOSE d \in Dims : ToString(d) = text

\* The parser behind NpyFile::new, shape() and into_vec::<f32>()
\* (app.rs:136-152, 210-231).  It belongs to the npyz crate; this is the
\* decode contract of the specification: magic and version, a 16-bit
\* little-endian header length, a dictionary with a '<f4' descr, a false
\* fortran_order and a shape, then 4 * product(shape) payload bytes.
Decode(bytes) ==
    IF bytes.magic # Magic \/ bytes.version # Version
    THEN Err(<<"Failed to parse npy: ", "bad magic or version">>)
    ELSE IF U16FromLe(bytes.header_len) # TextLen(bytes.header)
    THEN Err(<<"Failed to parse npy: ", "malformed header">>)
    ELSE LET descr == ValueAt(bytes.header, "'descr'")
             order == ValueAt(bytes.header, "'fortran_order'")
             tuple == ValueAt(bytes.header, "'shape'")
             items == IF tuple = <<>> THEN <<>>
                      ELSE TupleItems(bytes.header, tuple[1])
         IN IF descr = <<>> \/ order = <<>> \/ tuple = <<>>
            THEN Err(<<"Failed to parse npy: ", "malformed header">>)
            ELSE IF \E i \in DOMAIN items : ~IsDim(items[i])
            THEN Err(<<"Failed to parse npy: ", "malformed header">>)
            ELSE IF bytes.header[order[1]] # "False"
            THEN Err(<<"Failed to parse npy: ", "fortran order">>)
            ELSE IF bytes.header[descr[1]] # "'<f4'"
            THEN Err(<<"Failed to read npy data as f32: ", "type error">>)
            ELSE LET shape == [i \in DOMAIN items |-> DimOf(items[i])]
                 IN IF bytes.payload.len % 4 # 0
                       \/ bytes.payload.len # 4 * Product(shape)
                    THEN Err(<<"Failed to read npy data as f32: ",
                               "length mismatch">>)
                    ELSE Ok([data |->
                               [len |-> bytes.payload.len \div 4,
                                fill |-> F32FromLe(bytes.payload.fill),
                                set |-> [i \in DOMAIN bytes.payload.set |->
                                           F32FromLe(bytes.payload.set[i])]],
                             shape |-> shape])

\* A Vec<f32> given cell by cell.
Dense(cells) ==
    [len |-> Len(cells), fill |-> MinusOne,
     set |-> [i \in 0..(Len(cells) - 1) |-> cells[i + 1]]]

\* Arrays the encoder is applied to on its own: an empty one, one of one
\* dimension, one of two, and a 64 x 64 x 64 grid with one cell set.
Artifacts ==
    {[data |-> Dense(<<>>), shape |-> <<0>>],
     [data |-> Dense(<<SampleValues[1], MinusOne>>), shape |-> <<2>>],
     [data |-> Dense(<<SampleValues[1], MinusOne, SampleValues[2],
                       SampleValues[3]>>), shape |-> <<2, 2>>],
     [data |-> [len |-> TotalElements, fill |-> MinusOne,
                set |-> [i \in {4097} |-> SampleValues[2]]],
      shape |-> <<64, 64, 64>>]}

\* save_galaxy_data's input (app.rs:249-264).  A JSON number is an unsigned
\* integer, a negative integer or a float; an f64 is its sign, its biased
\* exponent and its mantissa as the 23 high and the 29 low bits.
UInt(n) == [kind |-> "uint", val |-> n, f64 |-> <<>>]
NegInt(n) == [kind |-> "nint", val |-> n, f64 |-> <<>>]
Float(neg, exp, hi, lo) ==
    [kind |-> "float", val |-> 0,
     f64 |-> <<[neg |-> neg, exp |-> exp, hi |-> hi, lo |-> lo]>>]
JString == [kind |-> "string", val |-> 0, f64 |-> <<>>]

\* u64 as f64 and i64 as f64, for the integers explored (below 2^23).
IntToF64(neg, n) ==
    IF n = 0
    THEN [neg |-> FALSE, exp |-> 0, hi |-> 0, lo |-> 0]
    ELSE LET e == CHOOSE e \in 0..22 : 2^e <= n /\ n < 2^(e + 1)
         IN [neg |-> neg, exp |-> 1023 + e, hi |-> (n - 2^e) * 2^(23 - e),
             lo |-> 0]

\* serde_json's Value::as_u64 and Value::as_f64 (app.rs:261-264).
AsU64(v) == IF v.kind = "uint" THEN <<v.val>> ELSE <<>>
AsF64(v) ==
    IF v.kind = "uint" THEN <<IntToF64(FALSE, v.val)>>
    ELSE IF v.kind = "nint" THEN <<IntToF64(TRUE, v.val)>>
    ELSE v.f64

\* app.rs:261: `as f32` on an f64 rounds to the nearest f32, ties to even;
\* too large a value becomes an infinity, a small one a subnormal or zero.
F64ToF32(d) ==
    LET e8 == d.exp - 896
        up == d.lo > 2^28 \/ (d.lo = 2^28 /\ d.hi % 2 = 1)
        shift == 1 - e8
        sig == 2^23 + d.hi
        q == sig \div 2^shift
        r == sig % 2^shift
        half == 2^(shift - 1)
        subUp == r > half \/ (r = half /\ (d.lo > 0 \/ q % 2 = 1))
    IN IF d.exp = 0
       THEN [neg |-> d.neg, mag |-> 0]
       ELSE IF e8 >= 255
       THEN [neg |-> d.neg, mag |-> 255 * 2^23]
       ELSE IF e8 >= 1
       THEN [neg |-> d.neg, mag |-> e8 * 2^23 + d.hi + (IF up THEN 1 ELSE 0)]
       ELSE IF shift > 25
       THEN [neg |-> d.neg, mag |-> 0]
       ELSE [neg |-> d.neg, mag |-> q + (IF subUp THEN 1 ELSE 0)]

\* app.rs:261: arr[0].as_f64().unwrap_or(-1.0) as f32
Density(arr) ==
    IF AsF64(arr[1]) = <<>> THEN MinusOne ELSE F64ToF32(AsF64(arr[1])[1])

\* app.rs:262-264: arr[i].as_u64().unwrap_or(0) as usize
Coord(v) == IF AsU64(v) = <<>> THEN 0 ELSE AsU64(v)[1]

\* A bounds test that lets a coordinate of 64 through.
InGridInclusive(x, y, z) == x <= 64 /\ y <= 64 /\ z <= 64

\* app.rs:267
InGrid(x, y, z) == x < 64 /\ y < 64 /\ z < 64

\* app.rs:268
GridIndex(x, y, z) == x * 64 * 64 + y * 64 + z

\* A value of the JSON object: an array of elements, or something else.
JArray(elems) == [array |-> TRUE, elems |-> elems]
NotArray == [array |-> FALSE, elems |-> <<>>]

\* app.rs:258-267: the entry is an array of at least 4 elements whose
\* coordinates lie in the grid.
Assigns(entry) ==
    /\ entry.array
    /\ Len(entry.elems) >= 4
    /\ InGrid(Coord(entry.elems[2]), Coord(entry.elems[3]),
              Coord(entry.elems[4]))
IndexOf(entry) ==
    GridIndex(Coord(entry.elems[2]), Coord(entry.elems[3]),
              Coord(entry.elems[4]))

\* app.rs:253-274: array_data after the loop over the object's entries, in
\* the order obj.iter() gives them; nothing is assigned when the JSON value
\* is not an object.
GalaxyGrid(json) ==
    LET entries == IF json.object THEN json.entries ELSE <<>>
        steps == {i \in DOMAIN entries : Assigns(entries[i])}
        LastStep(c) ==
            LET at == {i \in steps : IndexOf(entries[i]) = c}
            IN CHOOSE i \in at : \A j \in at : j <= i
    IN [len |-> 64 * 64 * 64, fill |-> MinusOne,
        set |-> [c \in {IndexOf(entries[i]) : i \in steps} |->
                    Density(entries[LastStep(c)].elems)]]

\* The entries explored: densities that are floats, integers, not numbers,
\* too large or too small for an f32; coordinates at the grid's corners,
\* beyond them, and not unsigned integers; arrays of 3 and of 5 elements; a
\* value that is no array.
Entries ==
    {JArray(<<Float(FALSE, 1024, 2097152, 0), UInt(1), UInt(2), UInt(3)>>),
     JArray(<<Float(FALSE, 1019, 5033164, 429496730),
              UInt(63), UInt(63), UInt(63)>>),
     JArray(<<UInt(7), UInt(0), UInt(0), UInt(0)>>),
     JArray(<<Float(FALSE, 1024, 2097152, 0), UInt(64), UInt(0), UInt(0)>>),
     JArray(<<Float(FALSE, 1024, 2097152, 0), UInt(0), UInt(63), UInt(64)>>),
     JArray(<<Float(FALSE, 1024, 2097152, 0), UInt(1), UInt(2)>>),
     JArray(<<Float(FALSE, 1019, 5033164, 429496730),
              NegInt(1), Float(FALSE, 1024, 0, 0), JString>>),
     JArray(<<JString, UInt(1), UInt(2), UInt(3)>>),
     JArray(<<NegInt(3), UInt(1), UInt(2), UInt(3), UInt(9)>>),
     JArray(<<Float(FALSE, 1155, 7018831, 298015909),
              UInt(5), UInt(5), UInt(5)>>),
     JArray(<<Float(FALSE, 890, 745777, 125261724),
              UInt(5), UInt(5), UInt(6)>>),
     NotArray}

\* The galaxy_json explored: text that is no JSON, a JSON value that is no
\* object, and objects of up to two entries.
GalaxyJsons ==
    {[valid |-> FALSE, object |-> FALSE, entries |-> <<>>],
     [valid |-> TRUE, object |-> FALSE, entries |-> <<>>]}
        \cup {[valid |-> TRUE, object |-> TRUE, entries |-> es] :
                es \in {<<>>} \cup {<<e>> : e \in Entries}
                          \cup {<<e, f>> : e \in Entries, f \in Entries}}

InitCodec ==
    /\ HomeInit
    /\ load = NoLoad
    /\ codec = [NoCodec EXCEPT !.pc = "ready"]

\* generate_npy_data(n) is called (app.rs:311-327).
GenerateCall(n) ==
    /\ codec.pc = "ready"
    /\ \E r \in RandomCounts :
         codec' = [codec EXCEPT !.pc = "fill", !.job = "generate",
                                !.n = n, !.num_random = NumRandom(n, r)]
    /\ UNCHANGED <<homeVars, load>>

\* app.rs:329-356: the grid is filled and flattened.
GenerateFill ==
    /\ codec.pc = "fill"
    /\ \E indices \in Shuffles, off \in {0, 1} :
         codec' = [codec EXCEPT !.pc = "encode", !.artifact =
                     <<[data |-> Filled(codec.num_random, indices, off),
                        shape |-> GridShape]>>]
    /\ UNCHANGED <<homeVars, load>>

\* The encoder is given an array of its own.
EncodeCall(a) ==
    /\ codec.pc = "ready"
    /\ codec' = [codec EXCEPT !.pc = "encode", !.job = "encode",
                              !.artifact = <<a>>]
    /\ UNCHANGED <<homeVars, load>>

\* save_galaxy_data(galaxy_json) is called (app.rs:243-274): the JSON text is
\* parsed, or the call fails, and the grid is filled.  Its shape is the one
\* the header will state.
SaveCall(json) ==
    /\ codec.pc = "ready"
    /\ codec' =
         IF ~json.valid
         THEN [codec EXCEPT !.pc = "failed", !.job = "save", !.json = <<json>>]
         ELSE [codec EXCEPT !.pc = "encode", !.job = "save", !.json = <<json>>,
                  !.artifact = <<[data |-> GalaxyGrid(json),
                                  shape |-> GridDims]>>]
    /\ UNCHANGED <<homeVars, load>>

\* app.rs:362-391 (and 277-306): the bytes are built and written;
\* generate_npy_data then returns the array, unless the write failed.
WriteNpy ==
    /\ codec.pc = "encode"
    /\ \E writeOk \in BOOLEAN :
         codec' =
           IF writeOk
           THEN [codec EXCEPT !.pc = "written",
                    !.npy_data = <<EncodeNpy(codec.artifact[1].data)>>,
                    !.returned = IF codec.job = "generate"
                                 THEN codec.artifact ELSE <<>>]
           ELSE [codec EXCEPT !.pc = "failed"]
    /\ UNCHANGED <<homeVars, load>>

\* The written bytes are parsed as run_model and load_npy parse a file.
DecodeNpy ==
    /\ codec.pc = "written"
    /\ codec' = [codec EXCEPT !.pc = "decoded",
                              !.decoded = <<Decode(codec.npy_data[1])>>]
    /\ UNCHANGED <<homeVars, load>>

NextCodec ==
    \/ \E n \in {<<>>} \cup {<<c>> : c \in Counts} : GenerateCall(n)
    \/ GenerateFill
    \/ \E a \in Artifacts : EncodeCall(a)
    \/ \E json \in GalaxyJsons : SaveCall(json)
    \/ WriteNpy
    \/ DecodeNpy

SpecCodec == InitCodec /\ [][NextCodec]_vars

---------------------------------------------------------------------------
(* Vocabulary of the properties.                                           *)

\* A "Run Model" click is taken in this step.
RunClicked == runs' = runs + 1

\* A "Place Galaxies" click is taken in this step.
Submitted == submits' = submits + 1

\* Call c has started on the server and has not returned.
Active(c) == calls[c].pc \in {"write", "exec", "wait", "collect"}

\* Call c has been invoked and its caller has not yet seen the result.
Pending(c) == calls[c].pc # "idle"

\* Call c returns in this step, from app.rs:111-156.
Collects(c) == calls[c].pc = "collect" /\ calls'[c].pc = "resp"

\* The background task of click g sees run_model fail in this step.
BackgroundFails(g) ==
    calls[g].pc = "resp" /\ ~calls[g].result.ok /\ calls'[g].pc = "idle"

\* The error's message has the text among its parts.
Carries(err, text) == text = "" \/ \E i \in DOMAIN err : err[i] = text

MissingOutput == Err(<<"Python script did not create output.npy file">>)
WriteFailed == Err(<<"Failed to write user_input.npy: ", "io error">>)

---------------------------------------------------------------------------
(* The properties.                                                         *)

\* C1: a result stored by the background inference of a click that a later
\* click had already superseded is never consumed by the run action: on such
\* a slot the run action starts a fresh inference.
C1_SupersededResultNotConsumed ==
    [][(RunClicked /\ cached_model_output # <<>> /\ cachedBy.by < cachedBy.at)
         => (invocations' = invocations + 1 /\ calls'[Foreground].pc = "read")]_vars

\* C2: every "Place Galaxies" click leaves the precompute slot empty.
C2_SubmitResetsSlot ==
    [][Submitted => cached_model_output' = <<>>]_vars

\* C3: at most one run_model call is active at any time.
C3_OneActiveCall ==
    Cardinality({c \in CallIds : Active(c)}) <= 1

\* C4: a run action taken while the background inference of the latest click
\* is pending invokes no second inference.
C4_RunAwaitsPending ==
    [][(RunClicked /\ submits >= 1 /\ Pending(submits))
         => invocations' = invocations]_vars

\* C5: a run action that finds the slot filled shows the cached array and
\* invokes run_model not at all: the invocation count and the calls stay.
C5_CachedRunNoInference ==
    [][(RunClicked /\ cached_model_output # <<>>)
         => (/\ shown' = cached_model_output
             /\ invocations' = invocations
             /\ calls' = calls)]_vars

\* C5 happens: one click, one invocation, and the run action has shown the
\* array the background inference cached.
C5_Witness ==
    /\ submits = 1 /\ runs = 1 /\ invocations = 1
    /\ shown # <<>> /\ shown = cached_model_output

\* C6: when a background inference fails the slot is empty afterwards.
C6_BackgroundFailureEmptiesSlot ==
    [][\A g \in BgIds : BackgroundFails(g) => cached_model_output' = <<>>]_vars

\* C7: a call whose child exited with a non-zero status has failed and has
\* not read output.npy.
C7_NonZeroExitNoRead ==
    \A c \in CallIds :
        (calls[c].pc = "resp" /\ calls[c].exited /\ calls[c].status # 0)
            => (~calls[c].result.ok /\ ~calls[c].readOut)

\* C7 happens: a call has returned after a non-zero exit while output.npy
\* exists.
C7_Witness ==
    \E c \in CallIds :
        /\ calls[c].pc = "resp" /\ calls[c].exited /\ calls[c].status # 0
        /\ fs.output # <<>>

\* C8: the error returned after a non-zero exit carries the exit code and
\* the captured stderr text.
C8_ErrorCarriesCodeAndStderr ==
    [][\A c \in CallIds :
         (Collects(c) /\ calls[c].status # 0)
            => (/\ Carries(calls'[c].result.err, StatusText(calls[c].status))
                /\ Carries(calls'[c].result.err, calls[c].stderr))]_vars

\* C9: a call whose child exited with status 0 and that finds no output.npy
\* returns the missing-output error, and no array.
C9_MissingOutputFails ==
    [][\A c \in CallIds :
         (Collects(c) /\ calls[c].status = 0 /\ fs.output = <<>>)
            => calls'[c].result = MissingOutput]_vars

\* C9 happens: a call has returned the missing-output error.
C9_Witness ==
    \E c \in CallIds :
        /\ calls[c].pc = "resp" /\ calls[c].exited /\ calls[c].status = 0
        /\ calls[c].result = MissingOutput

\* C10: a call that has launched the child has written user_input.npy
\* before, and a call whose write failed has failed without launching it.
C10_WriteBeforeLaunch ==
    \A c \in CallIds :
        /\ calls[c].launched => calls[c].wrote
        /\ (calls[c].pc = "resp" /\ calls[c].result = WriteFailed)
              => (~calls[c].launched /\ ~calls[c].exited)

\* C10 happens: one call has launched its child, holding the input it wrote,
\* and another has returned the write's failure.
C10_Witness ==
    \E c, d \in CallIds :
        /\ calls[c].pc = "wait" /\ calls[c].wrote /\ calls[c].child_input # <<>>
        /\ calls[d].pc = "resp" /\ calls[d].result = WriteFailed

\* The foreground task sees run_model return in this step.
ForegroundReturns ==
    calls[Foreground].pc = "resp" /\ calls'[Foreground].pc = "idle"

\* C17: when the foreground inference fails, model_status becomes "Error: "
\* followed by the error's message, and the slot is left as it was.
C17_ForegroundFailureShown ==
    [][(ForegroundReturns /\ ~calls[Foreground].result.ok)
         => (/\ Len(model_status') = 1 + Len(calls[Foreground].result.err)
             /\ model_status'[1] = "Error: "
             /\ \A i \in DOMAIN calls[Foreground].result.err :
                    model_status'[i + 1] = calls[Foreground].result.err[i]
             /\ cached_model_output' = cached_model_output)]_vars

\* C17 happens: the foreground run has failed and its error is the status,
\* beside a slot that a background inference had filled.
C17_Witness ==
    /\ runs = 1 /\ ~model_running /\ calls[Foreground].pc = "idle"
    /\ Len(model_status) > 1 /\ model_status[1] = "Error: "
    /\ cached_model_output # <<>>

\* C18: the foreground task never writes the slot, whether run_model
\* succeeded or failed.
C18_ForegroundLeavesSlot ==
    [][ForegroundReturns => cached_model_output' = cached_model_output]_vars

\* C18 happens: a foreground inference has succeeded and its array is shown
\* while the slot is still empty.
C18_Witness ==
    /\ runs = 1 /\ ~model_running /\ calls[Foreground].pc = "idle"
    /\ model_status = <<"Model complete!">>
    /\ shown # <<>> /\ cached_model_output = <<>>

\* The file and the endpoint of the current load_npy call.
LoadFile == load.files[load.run_id]
LoadStarted == load.pc \notin {"off", "ready"}
RemoteFailed == ~load.remote.reach \/ ~IsSuccess(load.remote.status)
RemoteCause ==
    IF load.remote.reach THEN HttpStatusText(load.remote.status)
    ELSE load.remote.err

\* C11: while the local file is readable a load issues no request, and the
\* bytes it parses are the file's.
C11_LocalFirst ==
    (LoadStarted /\ LoadFile.ok)
        => (/\ load.requests = 0
            /\ load.pc \in {"parse", "done"} => load.bytes = LoadFile.bytes)

\* C11 happens: a load has returned an array from a readable local file,
\* while the endpoint would have answered 200 with other bytes.
C11_Witness ==
    /\ load.pc = "done" /\ LoadFile.ok /\ load.result.ok
    /\ load.remote.reach /\ load.remote.status = 200
    /\ load.remote.body # <<>> /\ load.remote.body # LoadFile.bytes

\* C12: when the read and the fetch both failed, the returned error carries
\* the read's cause and the fetch's cause.
C12_ErrorCarriesBothCauses ==
    (load.pc = "done" /\ ~LoadFile.ok /\ RemoteFailed)
        => (/\ Carries(load.result.err, LoadFile.err)
            /\ Carries(load.result.err, RemoteCause))

\* C13: when the read failed and the endpoint answers with a success status,
\* the load has issued exactly one request once it is past the fetch, and
\* the bytes it parses are the response body.
C13_RemoteFallback ==
    (LoadStarted /\ ~LoadFile.ok /\ load.remote.reach
        /\ IsSuccess(load.remote.status))
        => (/\ load.pc \in {"body", "parse", "done"} => load.requests = 1
            /\ load.pc = "parse" => load.bytes = load.remote.body
            /\ load.result.ok => load.result.data = load.remote.body)

\* C13 happens: a load with no readable file has returned the array of the
\* response body.
C13_Witness ==
    /\ load.pc = "done" /\ ~LoadFile.ok /\ load.result.ok
    /\ load.requests = 1 /\ load.result.data = load.remote.body

\* C19: no step of load_npy changes a file.
C19_LoadWritesNoFile ==
    [][load.files' = load.files]_vars

\* C19 happens: loads have returned from the disk and from the endpoint.
C19_Witness ==
    /\ load.pc = "done" /\ load.loads = 2 /\ load.requests = 1
    /\ load.result.ok
    /\ \E id \in RunIds : load.files[id].ok

\* ---- generate_npy_data and the encoder ----------------------------------

\* The encoder has written a file.
Written == codec.npy_data # <<>>
\* generate_npy_data has returned Ok(NpyData { data, shape }).
Returned == codec.job = "generate" /\ codec.returned # <<>>
\* A value lies in [1.0, 1000.0).
InRange(v) == ~v.neg /\ v.mag >= OneBits /\ v.mag < ThousandBits
\* The cells of a vector that hold a value in [1.0, 1000.0).
CellsInRange(data) == {i \in DOMAIN data.set : InRange(data.set[i])}
\* Two vectors hold the same values.
SameData(d, e) ==
    /\ d.len = e.len
    /\ DOMAIN d.set \cup DOMAIN e.set \subseteq 0..(d.len - 1)
    /\ \A i \in DOMAIN d.set \cup DOMAIN e.set :
          (IF i \in DOMAIN d.set THEN d.set[i] ELSE d.fill)
            = (IF i \in DOMAIN e.set THEN e.set[i] ELSE e.fill)
    /\ (Cardinality(DOMAIN d.set \cup DOMAIN e.set) < d.len => d.fill = e.fill)

C15_ShapeMatchesData ==
    /\ Returned =>
          Product(codec.returned[1].shape) = codec.returned[1].data.len
    /\ (codec.decoded # <<>> /\ codec.decoded[1].ok) =>
          Product(codec.decoded[1].data[1].shape)
            = codec.decoded[1].data[1].data.len

C15_Witness ==
    /\ Returned
    /\ codec.pc = "decoded"
    /\ codec.decoded[1].ok
    /\ codec.returned[1].data.len = 262144

C20_HeaderAligned ==
    Written =>
        /\ U16FromLe(codec.npy_data[1].header_len)
             = TextLen(codec.npy_data[1].header)
        /\ (10 + U16FromLe(codec.npy_data[1].header_len)) % 64 = 0

\* ---- the click's two tasks, and run_model without its input ---------------

\* Call c takes its step 1: the existence check and the read.
Reads(c) == calls[c].pc = "read" /\ calls'[c].pc # "read"

\* C21: the background run_model of a "Place Galaxies" click does not read
\* user_input.npy before the save_galaxy_data of the same click has run.
C21_ReadsOwnSave ==
    [][\A g \in BgIds : Reads(g) => g \notin saves]_vars

\* The error of run_model for an input file that is not there.
InputNotFound == Err(<<"Input file not found: ", "user_input.npy">>)

\* C23: when the input file does not exist, run_model's first step returns
\* an error and nothing else happens: no file is written, no process is
\* launched, and the returned call has done neither.
C23_MissingInputNoEffect ==
    [][\A c \in CallIds :
          (Reads(c) /\ fs.user_input = <<>>)
             => /\ calls'[c].pc = "resp"
                /\ calls'[c].result = InputNotFound
                /\ ~calls'[c].wrote /\ ~calls'[c].launched
                /\ fs' = fs]_vars

\* C23 happens: a run_model call has returned "Input file not found", with
\* no file written and no child launched.
C23_Witness ==
    \E c \in CallIds :
        /\ calls[c].pc = "resp"
        /\ calls[c].result = InputNotFound
        /\ ~calls[c].wrote /\ ~calls[c].launched
        /\ fs.user_input = <<>>

\* ---- model_running around a foreground run ------------------------------

\* The "Run Model" click starts a foreground inference.
ForegroundStarts ==
    calls[Foreground].pc = "idle" /\ calls'[Foreground].pc = "read"

\* C24: a foreground inference sets model_running when it starts; when its
\* run_model call has returned, on success and on failure alike, the task
\* clears model_running, and it does so eventually.
C24_RunningReset ==
    /\ [][ForegroundStarts => model_running']_vars
    /\ [][ForegroundReturns => ~model_running']_vars
    /\ (calls[Foreground].pc = "resp") ~> ~model_running

\* C24 happens: a foreground run_model has returned, an error here, with
\* model_running still set; the task has yet to clear it.
C24_Witness ==
    /\ runs = 1 /\ model_running
    /\ calls[Foreground].pc = "resp" /\ ~calls[Foreground].result.ok

\* ---- the grid of save_galaxy_data ---------------------------------------

\* save_galaxy_data has written user_input.npy.
SaveWritten == codec.job = "save" /\ codec.npy_data # <<>>
\* The entries of the JSON object that was sent, in its order.
SentEntries ==
    IF codec.json[1].object THEN codec.json[1].entries ELSE <<>>
\* A coordinate as the reference reads it: an unsigned integer, else 0.
RefCoord(v) == IF v.kind = "uint" THEN v.val ELSE 0
\* Entry i names a cell: it is an array of at least 4 elements whose
\* coordinates are all below 64; the cell is x*4096 + y*64 + z.
RefNames(i) ==
    /\ SentEntries[i].array
    /\ Len(SentEntries[i].elems) >= 4
    /\ RefCoord(SentEntries[i].elems[2]) < 64
    /\ RefCoord(SentEntries[i].elems[3]) < 64
    /\ RefCoord(SentEntries[i].elems[4]) < 64
RefCell(i) ==
    RefCoord(SentEntries[i].elems[2]) * 4096
        + RefCoord(SentEntries[i].elems[3]) * 64
        + RefCoord(SentEntries[i].elems[4])
\* The entries that name cell c.
RefHits(c) == {i \in DOMAIN SentEntries : RefNames(i) /\ RefCell(i) = c}
\* The f32 in cell c of the file.
WrittenCell(c) ==
    IF c \in DOMAIN codec.npy_data[1].payload.set
    THEN F32FromLe(codec.npy_data[1].payload.set[c])
    ELSE F32FromLe(codec.npy_data[1].payload.fill)

\* C22: the grid save_galaxy_data writes has 64*64*64 cells; a cell that no
\* entry names holds -1.0, and a cell that entries name holds the density,
\* as an f32, of the last of them; entries of fewer than 4 elements or with
\* a coordinate of 64 or more name no cell.  (A density that is no number
\* is outside the reference.)
C22_GridReference ==
    SaveWritten =>
        /\ codec.npy_data[1].payload.len = 4 * 64 * 64 * 64
        /\ DOMAIN codec.npy_data[1].payload.set \subseteq 0..(64 * 64 * 64 - 1)
        /\ F32FromLe(codec.npy_data[1].payload.fill) = MinusOne
        /\ \A c \in DOMAIN codec.npy_data[1].payload.set
                    \cup {RefCell(i) : i \in {j \in DOMAIN SentEntries :
                                                 RefNames(j)}} :
                 IF RefHits(c) = {}
                 THEN WrittenCell(c) = MinusOne
                 ELSE LET last == CHOOSE i \in RefHits(c) :
                                      \A j \in RefHits(c) : j <= i
                          density == AsF64(SentEntries[last].elems[1])
                      IN density # <<>> =>
                            WrittenCell(c) = F64ToF32(density[1])

\* C22 happens: a file was written for an object of two entries, one that
\* names a cell and one with a coordinate of 64, and one cell was set.
C22_Witness ==
    /\ SaveWritten
    /\ Len(SentEntries) = 2
    /\ Cardinality(DOMAIN codec.npy_data[1].payload.set) = 1
    /\ \E i \in DOMAIN SentEntries :
          /\ SentEntries[i].array /\ Len(SentEntries[i].elems) >= 4
          /\ RefCoord(SentEntries[i].elems[2]) = 64

=============================================================================
